---- MODULE Spec2Model ----
(***************************************************************************)
(* GCal2Discord: the periodic synchronisation of Google Calendar events    *)
(* to Discord scheduled events (main.py).  The state is the in-memory      *)
(* mapping store (synced_events), the mapping document on disk             *)
(* (synced_events.json), the scheduled events living on the Discord        *)
(* server, and the position of sync_events_loop inside one cycle.          *)
(***************************************************************************)
EXTENDS Naturals, Sequences, FiniteSets, TLC

\* ------------------------------------------------------------- bounds
MaxCycles == 2      \* cycles started in one behaviour
MaxIds == 2         \* ids the Discord server hands out in one behaviour
MaxFaults == 1      \* process crashes and failed writes in one behaviour

\* ---------------------------------------------------- program constants
max_retries == 3

\* time.sleep(2) at the end of create_or_update_discord_event and of
\* delete_discord_event; time.sleep(3) of the branches of sync_events_loop
request_sleep == 2
action_sleep == 3

None == 0           \* Python's None for a Discord event id (ids are 1, 2, ...)

DISCORD_CHANNEL_ID == "chan"
TIMEZONE == "America/New_York"

\* ------------------------------------------------------------ events
\* The Google Calendar events the source may return.  A field an event lacks
\* is a key its record lacks, as in the API's JSON.  Titles and locations are
\* sequences of words: that is enough for the substring tests of the code.
AnchorDesc == "<a href=\"https://x.org\">Map</a>"
PlainDesc == "https://x.org (Map)"

EvRaid ==
    [id |-> "g1", summary |-> <<"Raid">>, location |-> <<"Discord">>,
     description |-> AnchorDesc,
     start |-> [dateTime |-> <<"2026-07-15", "T18:00:00", "-04:00">>],
     end |-> [dateTime |-> <<"2026-07-15", "T19:00:00", "-04:00">>]]

EvRaidMoved ==
    [id |-> "g1", summary |-> <<"Raid">>, location |-> <<"Town", "Hall">>,
     description |-> AnchorDesc,
     start |-> [dateTime |-> <<"2026-07-15", "T20:00:00", "-04:00">>],
     end |-> [dateTime |-> <<"2026-07-15", "T21:00:00", "-04:00">>]]

EvPicnic ==
    [id |-> "g2", summary |-> <<"Picnic">>,
     start |-> [date |-> <<"2026-07-15">>], end |-> [date |-> <<"2026-07-16">>]]

EvUntitled ==
    [id |-> "g2",
     start |-> [date |-> <<"2026-12-24">>], end |-> [date |-> <<"2026-12-25">>]]

EventPool == {EvRaid, EvRaidMoved, EvPicnic, EvUntitled}

\* dict.get(key, default)
Get(d, key, default) == IF key \in DOMAIN d THEN d[key] ELSE default

\* str.lower() on the words of a title or a location
LowerWord(w) ==
    CASE w = "Raid" -> "raid"
      [] w = "Picnic" -> "picnic"
      [] w = "Discord" -> "discord"
      [] w = "Town" -> "town"
      [] w = "Hall" -> "hall"
      [] OTHER -> w

Lower(s) == [i \in 1..Len(s) |-> LowerWord(s[i])]

\* keyword in text
Contains(s, w) == \E i \in 1..Len(s) : s[i] = w

\* The filter configurations of var.EVENT_FILTERS the model runs under: no
\* filter, or title_contains with one keyword.
FilterConfigs == {<<>>, <<"Raid">>}

should_sync_event(event, filters) ==
    IF filters = <<>>
    THEN TRUE
    ELSE LET event_title == Lower(Get(event, "summary", <<>>))
         IN \E i \in 1..Len(filters) : Contains(event_title, LowerWord(filters[i]))

\* re.sub of <a href="URL">TEXT</a> by "URL (TEXT)"
parse_html_links(text) ==
    IF text = "" THEN text
    ELSE IF text = AnchorDesc THEN PlainDesc
    ELSE text

\* The UTC offset of TIMEZONE on a date (daylight saving time in summer)
UtcOffset(date) ==
    IF date = <<"2026-07-15">> THEN "-04:00" ELSE "-05:00"

\* convert_utc_to_timezone for a timestamp with no timezone information
\* (date + 'T00:00:00'): the timestamp is kept and the zone's offset on that
\* date is appended
convert_utc_to_timezone(date, clock) == date \o <<clock, UtcOffset(date)>>

StartTime(event) ==
    IF "date" \in DOMAIN event.start
    THEN convert_utc_to_timezone(event.start.date, "T00:00:00")
    ELSE event.start.dateTime

EndTime(event) ==
    IF "date" \in DOMAIN event.start
    THEN convert_utc_to_timezone(event.start.date, "T23:59:59")
    ELSE Get(event.end, "dateTime", Get(event.end, "date", <<>>))

get_event_signature(event) ==
    [title |-> Get(event, "summary", <<>>),
     description |-> parse_html_links(Get(event, "description", "")),
     start_time |-> StartTime(event),
     end_time |-> EndTime(event),
     location |-> Get(event, "location", <<>>),
     is_discord_event |-> Contains(Lower(Get(event, "location", <<>>)), "discord")]

\* The signature a link written by an older version lacks: {}
NoSignature == [k \in {} |-> ""]

\* events_are_different looking at the title alone
events_are_different_TitleOnly(current_event, stored_signature) ==
    IF DOMAIN stored_signature = {}
    THEN TRUE
    ELSE LET current_signature == get_event_signature(current_event)
         IN \/ "title" \notin DOMAIN stored_signature
            \/ current_signature.title # stored_signature.title

\* events_are_different comparing the description as the source gave it
events_are_different_RawDescription(current_event, stored_signature) ==
    IF DOMAIN stored_signature = {}
    THEN TRUE
    ELSE LET current_signature ==
                 [get_event_signature(current_event) EXCEPT
                     !.description = Get(current_event, "description", "")]
         IN \E key \in DOMAIN current_signature :
               \/ key \notin DOMAIN stored_signature
               \/ current_signature[key] # stored_signature[key]

events_are_different(current_event, stored_signature) ==
    IF DOMAIN stored_signature = {}
    THEN TRUE
    ELSE LET current_signature == get_event_signature(current_event)
         IN \E key \in DOMAIN current_signature :
               \/ key \notin DOMAIN stored_signature
               \/ current_signature[key] # stored_signature[key]

\* event_data of sync_events_loop; event['summary'] raises KeyError on an
\* event with no title
HasSummary(event) == "summary" \in DOMAIN event

event_data(event) ==
    [date |-> Get(event.start, "dateTime", Get(event.start, "date", <<>>)),
     title |-> event.summary,
     channel |-> DISCORD_CHANNEL_ID,
     notes |-> Get(event, "description", ""),
     signature |-> get_event_signature(event)]

\* dict.update
Update(d, e) ==
    [k \in DOMAIN d \cup DOMAIN e |-> IF k \in DOMAIN e THEN e[k] ELSE d[k]]

NewLink(event, discord_event_id) ==
    Update([google_event_id |-> event.id, discord_event_id |-> discord_event_id],
           event_data(event))

\* ------------------------------------------------------------- state
VARIABLES
    pc,                 \* where the process is: "idle", "fetch", "loop", "req",
                        \* "del", "dreq", "down" (stopped), "dead" (start-up failed)
    filters,            \* var.EVENT_FILTERS
    store,              \* synced_events["events"], in memory
    file,               \* synced_events.json
    remote,             \* the scheduled events living on Discord: [id, gid]
    nextId,             \* the next id Discord hands out
    filtered,           \* filtered_events of the running cycle
    discord_event_ids,  \* discord_event_ids of the running cycle
    idx,                \* position of the first loop in filtered_events
    snap,               \* list(synced_events["events"]) of the second loop
    didx,               \* position of the second loop in snap
    cur,                \* the call in progress: [kind, gid, did]
    response,           \* the last response: [status, id]
    retry_count,        \* retry_count of the call in progress
    running,            \* invocations of sync_events_loop that have not returned
    cycles,             \* cycles started
    faults,             \* crashes and failed writes so far
    actions,            \* the calls this cycle has made, in order:
                        \* [kind, gid, did, result]
    fetched,            \* how this cycle's list calls ended
    startStore,         \* the store when this cycle started
    outcome,            \* how the last cycle ended
    prev,               \* the last finished cycle: [done, ok, filtered]
    since_request       \* <<seconds slept since this process sent its last
                        \* request of a call>>, <<>> when it has sent none

vars == <<pc, filters, store, file, remote, nextId, filtered, discord_event_ids,
          idx, snap, didx, cur, response, retry_count, running, cycles, faults,
          actions, fetched, startStore, outcome, prev, since_request>>

cycleVars == <<filtered, discord_event_ids, idx, snap, didx>>
callVars == <<cur, response, retry_count>>
ghostVars == <<actions, fetched, startStore, outcome, prev>>

NoCall == [kind |-> "none", gid |-> "", did |-> None]

\* The log of the cycle's calls: a call, and how it ended
Logged(call, result) ==
    [kind |-> call.kind, gid |-> call.gid, did |-> call.did, result |-> result]

Resolved(result) == [actions EXCEPT ![Len(actions)].result = result]

\* Every call this cycle has finished so far succeeded
AllOk == \A j \in 1..Len(actions) : actions[j].result # "failed"
NoResponse == [status |-> "none", id |-> None]
NoPrev == [done |-> FALSE, ok |-> FALSE, filtered |-> <<>>]

\* The mapping document: absent, a complete JSON document, or a document cut
\* short (open(..., 'w') has truncated it and json.dump has not finished)
Absent == [state |-> "absent", events |-> <<>>]
Document(events) == [state |-> "complete", events |-> events]
Partial == [state |-> "partial", events |-> <<>>]

\* A link an earlier run (of a version that stored no signature) left behind
LegacyLink ==
    [google_event_id |-> "g1", discord_event_id |-> 1,
     date |-> <<"2026-07-15", "T18:00:00", "-04:00">>, title |-> <<"Raid">>,
     channel |-> DISCORD_CHANNEL_ID, notes |-> ""]

\* load_synced_events: the document's events, or no events when it is absent
load_synced_events(f) == IF f.state = "absent" THEN <<>> ELSE f.events

Init ==
    /\ pc = "idle"
    /\ filters \in FilterConfigs
    /\ \/ /\ file = Absent
          /\ remote = {}
          /\ nextId = 1
       \/ /\ file = Document(<<LegacyLink>>)
          /\ remote = {[id |-> 1, gid |-> "g1"]}
          /\ nextId = 2
    /\ store = load_synced_events(file)
    /\ filtered = <<>>
    /\ discord_event_ids = {}
    /\ idx = 1
    /\ snap = <<>>
    /\ didx = 1
    /\ cur = NoCall
    /\ response = NoResponse
    /\ retry_count = 0
    /\ running = 0
    /\ cycles = 0
    /\ faults = 0
    /\ actions = <<>>
    /\ fetched = "none"
    /\ startStore = store
    /\ since_request = <<>>
    /\ outcome = "none"
    /\ prev = NoPrev

\* ------------------------------------------------------- the cycle
\* What the source can return: events with distinct ids, in any order
Listings ==
    {<<>>} \cup {<<e>> : e \in EventPool}
           \cup {p \in EventPool \X EventPool : p[1].id # p[2].id}

RECURSIVE Filter(_, _)
\* [event for event in events if should_sync_event(event)]
Filter(events, flt) ==
    IF events = <<>> THEN <<>>
    ELSE IF should_sync_event(Head(events), flt)
         THEN <<Head(events)>> \o Filter(Tail(events), flt)
         ELSE Filter(Tail(events), flt)

LiveIds == {r.id : r \in remote}

\* A timer that starts an invocation whenever the process is up
CanStartCycle_Reentrant == pc \notin {"down", "dead"}

\* tasks.loop runs the next invocation only when the previous one has returned,
\* and sync_events_loop never awaits: nothing else runs until it returns
CanStartCycle == pc = "idle"

Tick ==
    /\ CanStartCycle
    /\ cycles < MaxCycles
    /\ pc' = "fetch"
    /\ running' = running + 1
    /\ cycles' = cycles + 1
    /\ filtered' = <<>>
    /\ discord_event_ids' = {}
    /\ idx' = 1
    /\ snap' = <<>>
    /\ didx' = 1
    /\ cur' = NoCall
    /\ response' = NoResponse
    /\ retry_count' = 0
    /\ actions' = <<>>
    /\ fetched' = "none"
    /\ startStore' = store
    /\ outcome' = "running"
    /\ UNCHANGED since_request
    /\ UNCHANGED <<filters, store, file, remote, nextId, faults, prev>>

\* except Exception as e: log_event(...): the invocation returns
Abort(reason) ==
    /\ pc' = "idle"
    /\ running' = running - 1
    /\ outcome' = reason
    /\ prev' = NoPrev
    /\ filtered' = <<>>
    /\ discord_event_ids' = {}
    /\ idx' = 1
    /\ snap' = <<>>
    /\ didx' = 1
    /\ cur' = NoCall
    /\ response' = NoResponse
    /\ retry_count' = 0

\* get_upcoming_events raises (the Google API call fails)
FetchSourceRaises ==
    /\ pc = "fetch"
    /\ fetched' = "source_raised"
    /\ Abort("source_raised")
    /\ UNCHANGED since_request
    /\ UNCHANGED <<filters, store, file, remote, nextId, cycles, faults,
                   actions, startStore>>

\* requests.get raises in get_discord_events (no connection)
FetchTargetRaises ==
    /\ pc = "fetch"
    /\ fetched' = "target_raised"
    /\ Abort("target_raised")
    /\ UNCHANGED since_request
    /\ UNCHANGED <<filters, store, file, remote, nextId, cycles, faults,
                   actions, startStore>>

\* get_discord_events: the body of a 200 response, [] for any other status
get_discord_events(status) == IF status = 200 THEN LiveIds ELSE {}

Fetch(status) ==
    /\ pc = "fetch"
    /\ \E events \in Listings : filtered' = Filter(events, filters)
    /\ discord_event_ids' = get_discord_events(status)
    /\ fetched' = IF status = 200 THEN "ok" ELSE "target_failed"
    /\ idx' = 1
    /\ pc' = "loop"
    /\ UNCHANGED since_request
    /\ UNCHANGED <<filters, store, file, remote, nextId, snap, didx, callVars,
                   running, cycles, faults, actions, startStore, outcome,
                   prev>>

FetchOk == Fetch(200)

FetchTargetFails == Fetch(500)

\* The search of the store for the event's link finding none
LinkIndex_Never(events, gid) == 0

\* The position in the store of the first link of a source event, 0 if none
LinkIndex(events, gid) ==
    IF \E i \in 1..Len(events) : events[i].google_event_id = gid
    THEN CHOOSE i \in 1..Len(events) :
            /\ events[i].google_event_id = gid
            /\ \A j \in 1..(i - 1) : events[j].google_event_id # gid
    ELSE 0

\* The first loop testing for a change before testing for a missing target
PlannedKind_ChangeFirst(event) ==
    LET i == LinkIndex(store, event.id)
    IN IF i = 0 THEN "create"
       ELSE IF events_are_different(event, Get(store[i], "signature", NoSignature))
            THEN "update"
       ELSE IF store[i].discord_event_id \notin discord_event_ids THEN "recreate"
       ELSE "skip"

\* The branch of the first loop an event takes
PlannedKind(event) ==
    LET i == LinkIndex(store, event.id)
    IN IF i = 0 THEN "create"
       ELSE IF store[i].discord_event_id \notin discord_event_ids THEN "recreate"
       ELSE IF events_are_different(event, Get(store[i], "signature", NoSignature))
            THEN "update"
       ELSE "skip"

\* The request body sending a whole-day event's dates as the source gave them
Payload_NoWholeDay(event) ==
    LET start_time == Get(event.start, "dateTime", Get(event.start, "date", <<>>))
        end_time == Get(event.end, "dateTime", Get(event.end, "date", <<>>))
        event_location == Lower(Get(event, "location", <<>>))
        is_discord_event == Contains(event_location, "discord")
        data == [name |-> event.summary,
                 description |-> parse_html_links(Get(event, "description", "")),
                 scheduled_start_time |-> start_time,
                 scheduled_end_time |-> end_time,
                 privacy_level |-> 2,
                 entity_type |-> IF is_discord_event THEN 2 ELSE 3]
    IN IF is_discord_event
       THEN Update(data, [channel_id |-> DISCORD_CHANNEL_ID])
       ELSE Update(data, [entity_metadata |->
                [location |-> Get(event, "location", <<"External", "Event">>)]])

\* data of create_or_update_discord_event: the request body
Payload(event) ==
    LET start_time == Get(event.start, "dateTime", Get(event.start, "date", <<>>))
        end_time == Get(event.end, "dateTime", Get(event.end, "date", <<>>))
        whole_day == "date" \in DOMAIN event.start
        event_location == Lower(Get(event, "location", <<>>))
        is_discord_event == Contains(event_location, "discord")
        data == [name |-> event.summary,
                 description |-> parse_html_links(Get(event, "description", "")),
                 scheduled_start_time |->
                     IF whole_day
                     THEN convert_utc_to_timezone(start_time, "T00:00:00")
                     ELSE start_time,
                 scheduled_end_time |->
                     IF whole_day
                     THEN convert_utc_to_timezone(start_time, "T23:59:59")
                     ELSE end_time,
                 privacy_level |-> 2,
                 entity_type |-> IF is_discord_event THEN 2 ELSE 3]
    IN IF is_discord_event
       THEN Update(data, [channel_id |-> DISCORD_CHANNEL_ID])
       ELSE Update(data, [entity_metadata |->
                [location |-> Get(event, "location", <<"External", "Event">>)]])

\* One request of create_or_update_discord_event and Discord's answer: POST
\* (discord_event_id is None) creates an event under a new id, PATCH changes a
\* living event
SendCreateOrUpdate(did, gid) ==
    \E st \in {"ok", "429", "err"} :
        /\ st = "ok" => IF did = None THEN nextId <= MaxIds ELSE did \in LiveIds
        /\ response' = [status |-> st,
                        id |-> IF st # "ok" THEN None
                               ELSE IF did = None THEN nextId ELSE did]
        /\ remote' = IF st = "ok" /\ did = None
                     THEN remote \cup {[id |-> nextId, gid |-> gid]}
                     ELSE remote
        /\ since_request' = <<0>>
        /\ nextId' = IF st = "ok" /\ did = None THEN nextId + 1 ELSE nextId

\* The first loop going through the filtered events from the last to the first
CurrentEvent_Reversed == filtered[Len(filtered) + 1 - idx]

\* for event in filtered_events: the event the first loop is at
CurrentEvent == filtered[idx]

\* event_data = {... "title": event['summary'] ...} raises KeyError
MissingFieldAborts ==
    /\ pc = "loop"
    /\ idx <= Len(filtered)
    /\ ~HasSummary(CurrentEvent)
    /\ Abort("KeyError")
    /\ UNCHANGED since_request
    /\ UNCHANGED <<filters, store, file, remote, nextId, cycles, faults,
                   actions, fetched, startStore>>

\* Event hasn't changed, skip update
SkipEvent ==
    /\ pc = "loop"
    /\ idx <= Len(filtered)
    /\ HasSummary(CurrentEvent)
    /\ PlannedKind(CurrentEvent) = "skip"
    /\ idx' = idx + 1
    /\ UNCHANGED since_request
    /\ UNCHANGED <<pc, filters, store, file, remote, nextId, filtered,
                   discord_event_ids, snap, didx, callVars, running, cycles,
                   faults, ghostVars>>

\* create_or_update_discord_event is called: its first request
StartCall ==
    /\ pc = "loop"
    /\ idx <= Len(filtered)
    /\ HasSummary(CurrentEvent)
    /\ PlannedKind(CurrentEvent) # "skip"
    /\ LET event == CurrentEvent
           kind == PlannedKind(event)
           did == IF kind = "update"
                  THEN store[LinkIndex(store, event.id)].discord_event_id
                  ELSE None
       IN /\ cur' = [kind |-> kind, gid |-> event.id, did |-> did,
                     data |-> Payload(event)]
          /\ actions' = Append(actions, [kind |-> kind, gid |-> event.id,
                                          did |-> did, result |-> "pending"])
          /\ SendCreateOrUpdate(did, event.id)
    /\ retry_count' = 0
    /\ pc' = "req"
    /\ UNCHANGED <<filters, store, file, cycleVars, running, cycles, faults,
                   fetched, startStore, outcome, prev>>

\* Sleeping after a call only when the call succeeded
SleepAfterCall_OnSuccess ==
    IF response.status # "ok" THEN 0
    ELSE request_sleep
         + (IF cur.kind \in {"recreate", "update", "delete"} THEN action_sleep ELSE 0)

\* The seconds slept between a call's last answer and the loop going on: the
\* sleep that ends the call, and the sleep of the recreate, update and delete
\* branches (the create branch has none)
SleepAfterCall ==
    request_sleep
    + (IF cur.kind \in {"recreate", "update", "delete"} THEN action_sleep ELSE 0)

\* A retry loop that goes on two retries longer
WhileRetry_TwoMore == response.status = "429" /\ retry_count < max_retries + 2

\* while response.status_code == 429 and retry_count < max_retries
WhileRetry == response.status = "429" /\ retry_count < max_retries

RetryCreateOrUpdate ==
    /\ pc = "req"
    /\ WhileRetry
    /\ SendCreateOrUpdate(cur.did, cur.gid)
    /\ retry_count' = retry_count + 1
    /\ UNCHANGED <<pc, filters, store, file, cycleVars, cur, running, cycles,
                   faults, ghostVars>>

\* What create_or_update_discord_event returns: response.json().get('id') on
\* 200 or 201, None otherwise
CallResult == IF response.status = "ok" THEN response.id ELSE None

\* The update branch writing event_data into every link of the store
StoreAfterCall_AllLinks ==
    LET event == CurrentEvent
        i == LinkIndex(store, event.id)
        id == CallResult
    IN IF id = None THEN store
       ELSE IF cur.kind = "create" THEN Append(store, NewLink(event, id))
       ELSE IF cur.kind = "recreate"
            THEN [store EXCEPT ![i] =
                     Update([store[i] EXCEPT !.discord_event_id = id],
                            event_data(event))]
       ELSE [k \in 1..Len(store) |-> Update(store[k], event_data(event))]

\* The store after the branch that made the call has used its result
StoreAfterCall ==
    LET event == CurrentEvent
        i == LinkIndex(store, event.id)
        id == CallResult
    IN IF id = None THEN store
       ELSE IF cur.kind = "create" THEN Append(store, NewLink(event, id))
       ELSE IF cur.kind = "recreate"
            THEN [store EXCEPT ![i] =
                     Update([store[i] EXCEPT !.discord_event_id = id],
                            event_data(event))]
       ELSE [store EXCEPT ![i] = Update(store[i], event_data(event))]

\* A save that leaves the document as it was
save_synced_events_Skipped(events) == file

\* save_synced_events, when it completes
save_synced_events(events) == Document(events)

FinishCreateOrUpdate ==
    /\ pc = "req"
    /\ ~WhileRetry
    /\ store' = StoreAfterCall
    /\ file' = IF CallResult # None THEN save_synced_events(StoreAfterCall) ELSE file
    /\ actions' = Resolved(IF CallResult # None THEN "ok" ELSE "failed")
    /\ idx' = idx + 1
    /\ pc' = "loop"
    /\ cur' = NoCall
    /\ response' = NoResponse
    /\ retry_count' = 0
    /\ since_request' = <<since_request[1] + SleepAfterCall>>
    /\ UNCHANGED <<filters, remote, nextId, filtered, discord_event_ids, snap,
                   didx, running, cycles, faults, fetched, startStore, outcome,
                   prev>>

\* The second loop looking for every link's event id in an empty set
google_event_ids_Empty == {}

\* google_event_ids = {event['id'] for event in filtered_events}
google_event_ids == {filtered[i].id : i \in 1..Len(filtered)}

\* The first loop is over: for synced_event in list(synced_events["events"])
EnterDeleteLoop ==
    /\ pc = "loop"
    /\ idx > Len(filtered)
    /\ snap' = store
    /\ didx' = 1
    /\ pc' = "del"
    /\ UNCHANGED since_request
    /\ UNCHANGED <<filters, store, file, remote, nextId, filtered,
                   discord_event_ids, idx, callVars, running, cycles, faults,
                   ghostVars>>

\* The second loop testing the link's Discord id against the Discord listing
IsStale_ByTarget(link) == link.discord_event_id \notin discord_event_ids

\* if synced_event["google_event_id"] not in google_event_ids
IsStale(link) == link.google_event_id \notin google_event_ids

KeepLink ==
    /\ pc = "del"
    /\ didx <= Len(snap)
    /\ ~IsStale(snap[didx])
    /\ didx' = didx + 1
    /\ UNCHANGED since_request
    /\ UNCHANGED <<pc, filters, store, file, remote, nextId, filtered,
                   discord_event_ids, idx, snap, callVars, running, cycles,
                   faults, ghostVars>>

\* One DELETE request of delete_discord_event and Discord's answer: 204 when
\* the event lived
SendDelete(did) ==
    \E st \in {"ok", "429", "err"} :
        /\ st = "ok" => did \in LiveIds
        /\ response' = [status |-> st, id |-> None]
        /\ remote' = IF st = "ok" THEN {r \in remote : r.id # did} ELSE remote
        /\ since_request' = <<0>>
        /\ nextId' = nextId

StartDelete ==
    /\ pc = "del"
    /\ didx <= Len(snap)
    /\ IsStale(snap[didx])
    /\ LET link == snap[didx]
           call == [kind |-> "delete", gid |-> link.google_event_id,
                    did |-> link.discord_event_id]
       IN /\ cur' = call
          /\ actions' = Append(actions, Logged(call, "pending"))
          /\ SendDelete(link.discord_event_id)
    /\ retry_count' = 0
    /\ pc' = "dreq"
    /\ UNCHANGED <<filters, store, file, cycleVars, running, cycles, faults,
                   fetched, startStore, outcome, prev>>

RetryDelete ==
    /\ pc = "dreq"
    /\ WhileRetry
    /\ SendDelete(cur.did)
    /\ retry_count' = retry_count + 1
    /\ UNCHANGED <<pc, filters, store, file, cycleVars, cur, running, cycles,
                   faults, ghostVars>>

\* list.remove(x): the list without its first item equal to x
Remove(events, x) ==
    LET i == CHOOSE k \in 1..Len(events) :
                 /\ events[k] = x
                 /\ \A j \in 1..(k - 1) : events[j] # x
    IN [k \in 1..(Len(events) - 1) |-> IF k < i THEN events[k] ELSE events[k + 1]]

\* The second loop without its synced_events["events"].remove(synced_event)
StoreAfterDelete_Kept == store

\* The store after delete_discord_event has returned (it returns nothing)
StoreAfterDelete == Remove(store, snap[didx])

FinishDelete ==
    /\ pc = "dreq"
    /\ ~WhileRetry
    /\ store' = StoreAfterDelete
    /\ file' = save_synced_events(StoreAfterDelete)
    /\ actions' = Resolved(IF response.status = "ok" THEN "ok" ELSE "failed")
    /\ didx' = didx + 1
    /\ pc' = "del"
    /\ cur' = NoCall
    /\ response' = NoResponse
    /\ retry_count' = 0
    /\ since_request' = <<since_request[1] + SleepAfterCall>>
    /\ UNCHANGED <<filters, remote, nextId, filtered, discord_event_ids, idx,
                   snap, running, cycles, faults, fetched, startStore, outcome,
                   prev>>

\* Both loops are over: the invocation returns
EndCycle ==
    /\ pc = "del"
    /\ didx > Len(snap)
    /\ pc' = "idle"
    /\ running' = running - 1
    /\ outcome' = "completed"
    /\ prev' = [done |-> TRUE, ok |-> AllOk, filtered |-> filtered]
    /\ filtered' = <<>>
    /\ discord_event_ids' = {}
    /\ idx' = 1
    /\ snap' = <<>>
    /\ didx' = 1
    /\ UNCHANGED since_request
    /\ UNCHANGED <<filters, store, file, remote, nextId, callVars, cycles,
                   faults, actions, fetched, startStore>>

\* ------------------------------------------- the environment and faults
\* A scheduled event disappears from Discord (it ended, or somebody deleted it)
RemoteLoss ==
    /\ pc = "idle"
    /\ \E r \in remote : remote' = remote \ {r}
    /\ UNCHANGED since_request
    /\ UNCHANGED <<pc, filters, store, file, nextId, cycleVars, callVars,
                   running, cycles, faults, ghostVars>>

\* A save is about to run: a call has succeeded, or a delete has returned
PendingSave ==
    \/ pc = "req" /\ ~WhileRetry /\ CallResult # None
    \/ pc = "dreq" /\ ~WhileRetry

StoreAfter == IF pc = "req" THEN StoreAfterCall ELSE StoreAfterDelete

\* The process is gone: nothing of its memory is left
Down ==
    /\ pc' = "down"
    /\ faults' = faults + 1
    /\ store' = <<>>
    /\ filtered' = <<>>
    /\ discord_event_ids' = {}
    /\ idx' = 1
    /\ snap' = <<>>
    /\ didx' = 1
    /\ cur' = NoCall
    /\ response' = NoResponse
    /\ retry_count' = 0
    /\ running' = 0
    /\ actions' = <<>>
    /\ fetched' = "none"
    /\ startStore' = <<>>
    /\ outcome' = "crashed"
    /\ prev' = NoPrev
    /\ since_request' = <<>>
    /\ UNCHANGED <<filters, remote, nextId, cycles>>

\* The process stops outside save_synced_events
Crash ==
    /\ pc \notin {"down", "dead"}
    /\ faults < MaxFaults
    /\ file' = file
    /\ Down

\* The process stops inside save_synced_events, after open(..., 'w') has
\* truncated the document and before json.dump's output has reached it
CrashDuringSave ==
    /\ PendingSave
    /\ faults < MaxFaults
    /\ file' = Partial
    /\ Down

\* save_synced_events raises (open fails, or the write fails after the
\* truncation): the store in memory is already changed, the cycle aborts
SaveRaises ==
    /\ PendingSave
    /\ faults < MaxFaults
    /\ store' = StoreAfter
    /\ file' \in {file, Partial}
    /\ faults' = faults + 1
    /\ Abort("save_raised")
    /\ since_request' = <<since_request[1] + request_sleep>>
    /\ UNCHANGED <<filters, remote, nextId, cycles, actions, fetched,
                   startStore>>

\* The process is started again: synced_events = load_synced_events(); json.load
\* raises on a document cut short and the start-up fails
Restart ==
    /\ pc = "down"
    /\ IF file.state = "partial"
       THEN /\ pc' = "dead"
            /\ UNCHANGED <<store, startStore>>
       ELSE /\ pc' = "idle"
            /\ store' = load_synced_events(file)
            /\ startStore' = load_synced_events(file)
    /\ outcome' = "none"
    /\ UNCHANGED since_request
    /\ UNCHANGED <<filters, file, remote, nextId, cycleVars, callVars, running,
                   cycles, faults, actions, fetched, prev>>

Next ==
    \/ Tick
    \/ FetchSourceRaises
    \/ FetchTargetRaises
    \/ FetchOk
    \/ FetchTargetFails
    \/ MissingFieldAborts
    \/ SkipEvent
    \/ StartCall
    \/ RetryCreateOrUpdate
    \/ FinishCreateOrUpdate
    \/ EnterDeleteLoop
    \/ KeepLink
    \/ StartDelete
    \/ RetryDelete
    \/ FinishDelete
    \/ EndCycle
    \/ RemoteLoss
    \/ Crash
    \/ CrashDuringSave
    \/ SaveRaises
    \/ Restart

Spec == Init /\ [][Next]_vars

\* The steps of a running invocation of sync_events_loop.  The coroutine is
\* resumed after every await, and every request gets an answer: a step that
\* can be taken is taken
CycleStep ==
    \/ FetchSourceRaises
    \/ FetchTargetRaises
    \/ FetchOk
    \/ FetchTargetFails
    \/ MissingFieldAborts
    \/ SkipEvent
    \/ StartCall
    \/ RetryCreateOrUpdate
    \/ FinishCreateOrUpdate
    \/ EnterDeleteLoop
    \/ KeepLink
    \/ StartDelete
    \/ RetryDelete
    \/ FinishDelete
    \/ EndCycle

FairSpec == Spec /\ WF_vars(CycleStep)

\* ------------------------------------------------------------ claims
\* A cycle is between its list calls and its return
InCycle == pc \in {"loop", "req", "del", "dreq"}

\* Both loops of the cycle are over and the invocation is about to return
AtCycleEnd == pc = "del" /\ didx > Len(snap)

TargetIds(events) == {events[k].discord_event_id : k \in 1..Len(events)}

LinksOf(events, gid) == {k \in 1..Len(events) : events[k].google_event_id = gid}

CallsFor(gid) == {j \in 1..Len(actions) : actions[j].gid = gid}

\* C1: after a cycle that ran to its end with every create, update, recreate
\* and delete succeeding, a cycle with the same filtered source events and a
\* target listing that holds every linked target id makes no call and leaves
\* the store as it was.
C1_Idempotent ==
    ( /\ InCycle
      /\ prev.done
      /\ prev.ok
      /\ prev.filtered = filtered
      /\ TargetIds(startStore) \subseteq discord_event_ids )
    => /\ actions = <<>>
       /\ store = startStore

C1_Witness ==
    /\ AtCycleEnd
    /\ prev.done
    /\ prev.ok
    /\ prev.filtered = filtered
    /\ Len(filtered) = 2
    /\ Len(startStore) = 2
    /\ TargetIds(startStore) \subseteq discord_event_ids

C3_NoDuplicateNoOrphan ==
    AtCycleEnd
    => /\ \A r \in remote :
             Cardinality({k \in 1..Len(store) : store[k].discord_event_id = r.id}) = 1
       /\ \A r1, r2 \in remote : r1.gid = r2.gid => r1 = r2

\* C4: a call whose first request and every retry were answered 429 has made
\* exactly max_retries retries when it ends, is reported failed, and leaves the
\* store as it was (for create, update, recreate and delete alike).
C4_RateLimitedCallLeavesStore ==
    [][ ( /\ pc \in {"req", "dreq"}
          /\ response.status = "429"
          /\ pc' \in {"loop", "del"} )
        => /\ retry_count = max_retries
           /\ actions'[Len(actions)].result = "failed"
           /\ store' = store ]_vars

MissingTarget(gid) ==
    LET k == LinkIndex(startStore, gid)
    IN /\ k # 0
       /\ startStore[k].discord_event_id \notin discord_event_ids

C7_ListFailureAborts ==
    fetched \in {"source_raised", "target_raised", "target_failed"}
    => /\ actions = <<>>
       /\ store = startStore
       /\ pc \notin {"down", "dead"}

\* C8: the first loop, at an event that lacks its title, goes on with the
\* cycle (the next event, or the second loop) instead of ending it.
C8_MissingFieldTolerated ==
    [][ ( /\ pc = "loop"
          /\ idx <= Len(filtered)
          /\ ~HasSummary(filtered[idx])
          /\ pc' # "down" )
        => pc' \in {"loop", "req"} ]_vars

\* C9: at most one invocation of sync_events_loop is executing at any time.
C9_OneCycleAtATime == running <= 1

C9_Witness ==
    /\ running = 1
    /\ cycles = 2
    /\ pc = "req"
    /\ store # <<>>

\* C10: whenever the process stops, the mapping document is the complete
\* document it was before, or the complete document of the save in progress.
C10_SaveAtomic ==
    [][ (pc # "down" /\ pc' = "down")
        => \/ file' = file
           \/ PendingSave /\ file' = save_synced_events(StoreAfter) ]_vars

\* C11: a start of the process ends with the process up, whatever the mapping
\* document is, and with an empty store when the document is absent or is not
\* a complete JSON document.
C11_LoadTolerant ==
    [][ (pc = "down" /\ pc' # "down")
        => /\ pc' = "idle"
           /\ file.state \in {"absent", "partial"} => store' = <<>> ]_vars

\* C12: a call that ends rate limited after its retries does not end the cycle,
\* and leaves the store such that a cycle with the same source events and the
\* same target listing plans that call again: the first loop takes the same
\* branch for the event, the second loop still finds the stale link.
C12_RateLimitedCallPlannedAgain ==
    [][ ( /\ pc \in {"req", "dreq"}
          /\ response.status = "429"
          /\ pc' \in {"loop", "del"} )
        => IF pc = "req"
           THEN \A e \in {filtered[idx]} : PlannedKind(e)' = cur.kind
           ELSE \E k \in 1..Len(store') : store'[k] = snap[didx] ]_vars

\* The links of a store that are not keyed by gid, in the store's order
OtherLinks(events, gid) ==
    LET Other(link) == link.google_event_id # gid
    IN SelectSeq(events, Other)

\* C13: the step that applies a call's result to the store changes at most the
\* link keyed by the call's source event id. A successful create appends one
\* link with that key, a successful update or recreate changes the one link with
\* that key and keeps its place, a successful delete leaves no link with that
\* key, every link with another key is as it was, and a failed create, update or
\* recreate leaves the store as it was.
C13_OneLinkPerAction ==
    [][ ( /\ pc \in {"req", "dreq"}
          /\ ~WhileRetry
          /\ pc' \in {"loop", "del", "idle"} )
        => /\ OtherLinks(store', cur.gid) = OtherLinks(store, cur.gid)
           /\ (cur.kind = "create" /\ response.status = "ok")
                 => /\ LinksOf(store, cur.gid) = {}
                    /\ Len(store') = Len(store) + 1
                    /\ LinksOf(store', cur.gid) = {Len(store')}
           /\ (cur.kind \in {"update", "recreate"} /\ response.status = "ok")
                 => /\ Len(store') = Len(store)
                    /\ LinksOf(store', cur.gid) = LinksOf(store, cur.gid)
                    /\ Cardinality(LinksOf(store, cur.gid)) = 1
           /\ (cur.kind = "delete" /\ response.status = "ok")
                 => /\ Len(store') = Len(store) - 1
                    /\ LinksOf(store', cur.gid) = {}
           /\ (cur.kind # "delete" /\ response.status # "ok")
                 => store' = store ]_vars

\* An update of one link of a store of two links has succeeded
C13_Witness ==
    /\ pc = "loop"
    /\ Len(store) = 2
    /\ Len(actions) > 0
    /\ actions[Len(actions)].kind = "update"
    /\ actions[Len(actions)].result = "ok"
    /\ store # startStore

\* C14: while no save has failed and the process has not stopped, between two
\* calls of a cycle and at the cycle's end the mapping document is complete and
\* holds the store in memory, so loading it gives back every change made so far.
C14_SavedAfterEachAction ==
    (faults = 0 /\ pc \in {"loop", "del", "idle"})
    => /\ load_synced_events(file) = store
       /\ file.state # "partial"

\* Between two calls, after a call has changed the store
C14_Witness ==
    /\ faults = 0
    /\ pc = "loop"
    /\ idx <= Len(filtered)
    /\ store # startStore
    /\ Len(actions) > 0
    /\ actions[Len(actions)].result = "ok"

\* C15: when the save after a call raises, the cycle makes no further call and
\* the process stays up, and the cycle after it starts from the store that the
\* mapping document holds.
C15_SaveFailureAborts ==
    [][ /\ (outcome = "running" /\ outcome' = "save_raised")
           => /\ pc' = "idle"
              /\ running' = 0
              /\ actions' = actions
              /\ remote' = remote
        /\ (outcome = "save_raised" /\ pc = "idle" /\ pc' = "fetch")
           => /\ file'.state # "partial"
              /\ startStore' = load_synced_events(file') ]_vars

\* The place of the event keyed by gid in the cycle's filtered events
PlaceOf(gid) == CHOOSE i \in 1..Len(filtered) : filtered[i].id = gid

\* C16: in a cycle, no create, update or recreate call comes after a delete
\* call, and the create, update and recreate calls come in the order of their
\* events in the filtered source listing.
C16_CallOrder ==
    InCycle
    => \A j, k \in 1..Len(actions) :
          j < k
          => /\ actions[j].kind = "delete" => actions[k].kind = "delete"
             /\ (actions[j].kind # "delete" /\ actions[k].kind # "delete")
                   => PlaceOf(actions[j].gid) < PlaceOf(actions[k].gid)

\* A call of the first loop for one event and then the delete for another
C16_Witness ==
    /\ AtCycleEnd
    /\ Len(actions) = 2
    /\ actions[1].kind \in {"create", "update", "recreate"}
    /\ actions[2].kind = "delete"

\* The link a filtered event had when the cycle started names a target id
\* that the cycle's target listing holds
LiveTarget(gid) ==
    LET k == LinkIndex(startStore, gid)
    IN /\ k # 0
       /\ startStore[k].discord_event_id \in discord_event_ids

\* The event's signature is not the fingerprint the link holds
Differs(event, link) ==
    \/ "signature" \notin DOMAIN link
    \/ link.signature # get_event_signature(event)

C19_PayloadAgreesWithSignature ==
    pc = "req"
    => LET signature == get_event_signature(filtered[idx])
       IN /\ cur.data.scheduled_start_time = signature.start_time
          /\ cur.data.scheduled_end_time = signature.end_time
          /\ cur.data.description = signature.description
          /\ cur.data.entity_type = IF signature.is_discord_event THEN 2 ELSE 3
          /\ signature.is_discord_event <=> "channel_id" \in DOMAIN cur.data
          /\ ~signature.is_discord_event <=> "entity_metadata" \in DOMAIN cur.data

\* A request for a whole-day event is in flight
C19_Witness ==
    /\ pc = "req"
    /\ "date" \in DOMAIN filtered[idx].start
    /\ cur.data.scheduled_end_time[2] = "T23:59:59"

\* C20: no two links of the store have the same source event id, whatever mix
\* of successful, failed and rate-limited calls the cycles have seen.
C20_UniqueSourceIds ==
    \A j, k \in 1..Len(store) :
        store[j].google_event_id = store[k].google_event_id => j = k

\* Two links in the store in a cycle that has seen a call fail
C20_Witness ==
    /\ Len(store) = 2
    /\ \E j \in 1..Len(actions) : actions[j].result = "failed"

\* C18: a call makes at most max_retries retries after its first request, and
\* a cycle that has started comes to its end: the driver is idle again (or the
\* process has been stopped).
C18_CycleTerminates ==
    /\ [](retry_count <= max_retries)
    /\ (pc \in {"fetch", "loop", "req", "del", "dreq"}) ~> (pc \in {"idle", "down"})

\* A delete call has sent its first request and max_retries retries
C18_Witness ==
    /\ pc = "dreq"
    /\ retry_count = max_retries
    /\ response.status = "429"

\* C21: whenever the process is between two calls (in a loop, about to list, or
\* idle) and has made a call before, at least the sleep that ends every call has
\* passed since that call's last request, however the call ended: the first
\* request of the next call is never sent sooner.
C21_DelayBetweenActions ==
    (pc \in {"idle", "fetch", "loop", "del"} /\ since_request # <<>>)
    => since_request[1] >= request_sleep

\* The first request of a call is sent after a call that failed
C21_Witness ==
    /\ pc \in {"req", "dreq"}
    /\ retry_count = 0
    /\ Len(actions) = 2
    /\ actions[1].result = "failed"

\* C22: in a cycle no source event id gets more than one call, and a link the
\* cycle has created, updated or recreated is not the object of a delete call
\* and is still in the store.
C22_OneActionPerEvent ==
    InCycle
    => /\ \A j, k \in 1..Len(actions) :
             actions[j].gid = actions[k].gid => j = k
       /\ \A j \in 1..Len(actions) :
             (actions[j].kind \in {"create", "update", "recreate"}
              /\ actions[j].result = "ok")
             => /\ LinksOf(store, actions[j].gid) # {}
                /\ \A k \in 1..Len(actions) :
                      actions[k].kind = "delete" => actions[k].gid # actions[j].gid

\* A cycle that has updated or recreated one link and deleted another
C22_Witness ==
    /\ AtCycleEnd
    /\ Len(store) = 1
    /\ \E j, k \in 1..Len(actions) :
          /\ actions[j].kind \in {"update", "recreate"}
          /\ actions[j].result = "ok"
          /\ actions[k].kind = "delete"
          /\ LinksOf(store, actions[j].gid) = {1}

====
